---- MODULE Spec2Model ----
(***************************************************************************)
(* A model of the undo_stack crate: UndoStack<T> (src/src/lib.rs) used     *)
(* with the Project / UndoValue types of the two examples                  *)
(* (src/example_single_values, src/example_group).                         *)
(***************************************************************************)
EXTENDS Integers, Sequences, FiniteSets, TLC

VARIABLES
    past_stack,     \* UndoStack.past_stack   : Vec<Kind<T>>
    future_stack,   \* UndoStack.future_stack : Vec<Kind<T>>
    undo_buffer,    \* UndoStack.undo_buffer  : Option<T>
    open_group,     \* UndoStack.open_group   : bool
    verbose,        \* UndoStack.verbose      : bool
    project,        \* the caller's Project { a, b }
    ret,            \* what the last undo/redo call returned : Option<T>
    out,            \* the lines the last call printed (feature "std")
    op,             \* the last call: its name and arguments
    pre,            \* the engine and the project as they were before the last call
    sc              \* the position of the caller's script (scripted specifications)

vars == <<past_stack, future_stack, undo_buffer, open_group, verbose,
          project, ret, out, op, pre, sc>>

-----------------------------------------------------------------------------
(* Bounds of the model.                                                    *)

\* A call that would make past_stack and future_stack hold more slots than
\* this in total is not taken (the free specification).
MaxSlots == 3
\* The recorded changes of the undo/redo script.
MaxEdits == 3
\* The recorded changes before the group and inside it, of the group script.
MaxPrefix == 1
MaxGroupEdits == 2
\* The iterations of the group loop that one call is followed for (the
\* stepwise specification).
MaxIters == 5

\* The values a field of the project takes.
Vals == {0, 1}

-----------------------------------------------------------------------------
(* Data: Project, UndoValue, Kind<T>, Option<T>.                           *)

\* struct Project { a, b }
Project == [a : Vals, b : Vals]

\* enum UndoValue { ValueA(i32), ValueB(f32), AllValues { a, b } }
ValueA(v) == [tag |-> "ValueA", a |-> v]
ValueB(v) == [tag |-> "ValueB", b |-> v]
AllValues(x, y) == [tag |-> "AllValues", a |-> x, b |-> y]
UndoValue ==
    {ValueA(v) : v \in Vals} \cup {ValueB(v) : v \in Vals}
        \cup {AllValues(x, y) : x \in Vals, y \in Vals}

\* enum Kind<T> { Group, Single(T) }
Group == [kind |-> "Group"]
Single(value) == [kind |-> "Single", value |-> value]
IsSingle(kind) == kind.kind = "Single"

\* Option<T>
None == [some |-> FALSE]
Some(value) == [some |-> TRUE, value |-> value]

\* Vec::last, and the vector without its last element (what Vec::pop leaves)
Last(stack) == stack[Len(stack)]
Front(stack) == SubSeq(stack, 1, Len(stack) - 1)

-----------------------------------------------------------------------------
(* impl Undoable for UndoValue: restore writes the value into the project  *)
(* and returns the value it replaced.                                      *)

\* restore as it would be if it read the replaced value after writing the new one
restore_reads_late(value, proj) ==
    CASE value.tag = "ValueA" ->
            [project |-> [proj EXCEPT !.a = value.a],
             old_value |-> ValueA(value.a)]
      [] value.tag = "ValueB" ->
            [project |-> [proj EXCEPT !.b = value.b],
             old_value |-> ValueB(value.b)]
      [] value.tag = "AllValues" ->
            [project |-> [a |-> value.a, b |-> value.b],
             old_value |-> AllValues(value.a, value.b)]

restore(value, proj) ==
    CASE value.tag = "ValueA" ->
            [project |-> [proj EXCEPT !.a = value.a],
             old_value |-> ValueA(proj.a)]
      [] value.tag = "ValueB" ->
            [project |-> [proj EXCEPT !.b = value.b],
             old_value |-> ValueB(proj.b)]
      [] value.tag = "AllValues" ->
            [project |-> [a |-> value.a, b |-> value.b],
             old_value |-> AllValues(proj.a, proj.b)]

-----------------------------------------------------------------------------
(* UndoStack<T>: the engine as a record, and its methods as operators      *)
(* from the engine before the call to the engine after it.                 *)

\* the fields of the UndoStack the methods read and write
self ==
    [past_stack |-> past_stack, future_stack |-> future_stack,
     undo_buffer |-> undo_buffer, open_group |-> open_group]

\* UndoStack::new
new ==
    [past_stack |-> <<>>, future_stack |-> <<>>,
     undo_buffer |-> None, open_group |-> FALSE]

\* UndoStack::maybe_print: the line is printed only when verbose is set
maybe_print(vb, text) == IF vb THEN <<text>> ELSE <<>>

\* push as it would be without future_stack.clear()
push_without_clear(s, undo_value) ==
    IF /\ Len(s.past_stack) > 0
       /\ IsSingle(Last(s.past_stack))
       /\ Last(s.past_stack).value = undo_value
    THEN s
    ELSE [s EXCEPT !.past_stack = Append(s.past_stack, Single(undo_value))]

\* push as it would be without the early return on an equal top value
push_without_dedup(s, undo_value) ==
    [s EXCEPT !.past_stack = Append(s.past_stack, Single(undo_value)),
              !.future_stack = <<>>]

\* UndoStack::push
push(s, undo_value) ==
    IF /\ Len(s.past_stack) > 0
       /\ IsSingle(Last(s.past_stack))
       /\ Last(s.past_stack).value = undo_value
    THEN s
    ELSE [s EXCEPT !.past_stack = Append(s.past_stack, Single(undo_value)),
                   !.future_stack = <<>>]

\* start_group as it would be without the test of open_group
start_group_unguarded(s, vb) ==
    [s |-> [s EXCEPT !.past_stack = Append(s.past_stack, Group),
                     !.open_group = TRUE],
     out |-> <<>>]

\* UndoStack::start_group
start_group(s, vb) ==
    IF ~s.open_group
    THEN [s |-> [s EXCEPT !.past_stack = Append(s.past_stack, Group),
                          !.open_group = TRUE],
          out |-> <<>>]
    ELSE [s |-> s, out |-> maybe_print(vb, "cannot open new group")]

\* finish_group as it would be without the test of open_group
finish_group_unguarded(s, vb) ==
    [s |-> [s EXCEPT !.past_stack = Append(s.past_stack, Group),
                     !.open_group = FALSE],
     out |-> <<>>]

\* UndoStack::finish_group
finish_group(s, vb) ==
    IF s.open_group
    THEN [s |-> [s EXCEPT !.past_stack = Append(s.past_stack, Group),
                          !.open_group = FALSE],
          out |-> <<>>]
    ELSE [s |-> s, out |-> maybe_print(vb, "no open groups to close")]

\* reopen_group as it would be if the popped Single were not pushed back
reopen_group_drops_single(s, vb) ==
    IF Len(s.past_stack) > 0
    THEN LET kind == Last(s.past_stack)
             popped == [s EXCEPT !.past_stack = Front(s.past_stack)]
         IN  IF kind = Group
             THEN IF s.open_group
                  THEN [s |-> popped,
                        out |-> maybe_print(vb, "last value is already an open group")]
                  ELSE [s |-> [popped EXCEPT !.open_group = TRUE], out |-> <<>>]
             ELSE [s |-> popped,
                   out |-> maybe_print(vb, "last value is not a group")]
    ELSE [s |-> s, out |-> <<>>]

\* UndoStack::reopen_group: the slot is popped first; only a Single is pushed back
reopen_group(s, vb) ==
    IF Len(s.past_stack) > 0
    THEN LET kind == Last(s.past_stack)
             popped == [s EXCEPT !.past_stack = Front(s.past_stack)]
         IN  IF kind = Group
             THEN IF s.open_group
                  THEN [s |-> popped,
                        out |-> maybe_print(vb, "last value is already an open group")]
                  ELSE [s |-> [popped EXCEPT !.open_group = TRUE], out |-> <<>>]
             ELSE [s |-> [popped EXCEPT
                            !.past_stack = Append(popped.past_stack, Single(kind.value))],
                   out |-> maybe_print(vb, "last value is not a group")]
    ELSE [s |-> s, out |-> <<>>]

\* move_undo_value, the loop of the Kind::Group arm: pops from from_stack until
\* a second Group or the end of the stack; the incomplete-group line is printed
\* without looking at verbose
RECURSIVE group_loop(_, _, _)

\* the loop as it would be if it stopped after the first Single
group_loop_once(from_stack, to_stack, proj) ==
    IF from_stack = <<>>
    THEN [from_stack |-> from_stack, to_stack |-> to_stack, project |-> proj,
          out |-> <<"incomplete undo group">>]
    ELSE LET next_value == Last(from_stack)
         IN  IF next_value = Group
             THEN [from_stack |-> Front(from_stack),
                   to_stack |-> Append(to_stack, Group),
                   project |-> proj, out |-> <<>>]
             ELSE LET r == restore(next_value.value, proj)
                  IN  [from_stack |-> Front(from_stack),
                       to_stack |-> Append(to_stack, Single(r.old_value)),
                       project |-> r.project, out |-> <<>>]

\* the loop as it would be if it pushed the popped value, not the one
\* restore returned
group_loop_keeps_value(from_stack, to_stack, proj) ==
    IF from_stack = <<>>
    THEN [from_stack |-> from_stack, to_stack |-> to_stack, project |-> proj,
          out |-> <<"incomplete undo group">>]
    ELSE LET next_value == Last(from_stack)
         IN  IF next_value = Group
             THEN [from_stack |-> Front(from_stack),
                   to_stack |-> Append(to_stack, Group),
                   project |-> proj, out |-> <<>>]
             ELSE LET r == restore(next_value.value, proj)
                  IN  group_loop(Front(from_stack),
                                 Append(to_stack, next_value),
                                 r.project)

group_loop(from_stack, to_stack, proj) ==
    IF from_stack = <<>>
    THEN [from_stack |-> from_stack, to_stack |-> to_stack, project |-> proj,
          out |-> <<"incomplete undo group">>]
    ELSE LET next_value == Last(from_stack)
         IN  IF next_value = Group
             THEN [from_stack |-> Front(from_stack),
                   to_stack |-> Append(to_stack, Group),
                   project |-> proj, out |-> <<>>]
             ELSE LET r == restore(next_value.value, proj)
                  IN  group_loop(Front(from_stack),
                                 Append(to_stack, Single(r.old_value)),
                                 r.project)

\* one iteration as it would be if the Single arm read from_stack.last()
\* and left the slot where it is
loop_iteration_peeks(from_stack, to_stack, proj) ==
    IF from_stack = <<>>
    THEN [from_stack |-> from_stack, to_stack |-> to_stack, project |-> proj,
          out |-> <<"incomplete undo group">>, done |-> TRUE]
    ELSE LET next_value == Last(from_stack)
         IN  IF next_value = Group
             THEN [from_stack |-> Front(from_stack),
                   to_stack |-> Append(to_stack, Group),
                   project |-> proj, out |-> <<>>, done |-> TRUE]
             ELSE LET r == restore(next_value.value, proj)
                  IN  [from_stack |-> from_stack,
                       to_stack |-> Append(to_stack, Single(r.old_value)),
                       project |-> r.project, out |-> <<>>, done |-> FALSE]

\* move_undo_value, one iteration of the loop of the Kind::Group arm: one
\* from_stack.pop() and the arm it selects; done when the arm breaks
loop_iteration(from_stack, to_stack, proj) ==
    IF from_stack = <<>>
    THEN [from_stack |-> from_stack, to_stack |-> to_stack, project |-> proj,
          out |-> <<"incomplete undo group">>, done |-> TRUE]
    ELSE LET next_value == Last(from_stack)
         IN  IF next_value = Group
             THEN [from_stack |-> Front(from_stack),
                   to_stack |-> Append(to_stack, Group),
                   project |-> proj, out |-> <<>>, done |-> TRUE]
             ELSE LET r == restore(next_value.value, proj)
                  IN  [from_stack |-> Front(from_stack),
                       to_stack |-> Append(to_stack, Single(r.old_value)),
                       project |-> r.project, out |-> <<>>, done |-> FALSE]

\* the match as it would be with the None arm leaving a marker on to_stack
move_match_marks_empty(from_stack, to_stack, proj, vb) ==
    IF from_stack = <<>>
    THEN [from_stack |-> from_stack, to_stack |-> Append(to_stack, Group),
          project |-> proj, out |-> maybe_print(vb, "no value to undo/redo")]
    ELSE LET kind == Last(from_stack)
         IN  IF kind = Group
             THEN group_loop(Front(from_stack), Append(to_stack, Group), proj)
             ELSE LET r == restore(kind.value, proj)
                  IN  [from_stack |-> Front(from_stack),
                       to_stack |-> Append(to_stack, Single(r.old_value)),
                       project |-> r.project, out |-> <<>>]

\* the match as it would be if the Single arm pushed the popped value itself
move_match_keeps_value(from_stack, to_stack, proj, vb) ==
    IF from_stack = <<>>
    THEN [from_stack |-> from_stack, to_stack |-> to_stack, project |-> proj,
          out |-> maybe_print(vb, "no value to undo/redo")]
    ELSE LET kind == Last(from_stack)
         IN  IF kind = Group
             THEN group_loop(Front(from_stack), Append(to_stack, Group), proj)
             ELSE LET r == restore(kind.value, proj)
                  IN  [from_stack |-> Front(from_stack),
                       to_stack |-> Append(to_stack, kind),
                       project |-> r.project, out |-> <<>>]

\* the match as it would be if a group without a second marker were left alone
move_match_checks_first(from_stack, to_stack, proj, vb) ==
    IF from_stack = <<>>
    THEN [from_stack |-> from_stack, to_stack |-> to_stack, project |-> proj,
          out |-> maybe_print(vb, "no value to undo/redo")]
    ELSE LET kind == Last(from_stack)
         IN  IF kind = Group
             THEN IF \E i \in 1..(Len(from_stack) - 1) : from_stack[i] = Group
                  THEN group_loop(Front(from_stack), Append(to_stack, Group), proj)
                  ELSE [from_stack |-> from_stack, to_stack |-> to_stack,
                        project |-> proj, out |-> <<"incomplete undo group">>]
             ELSE LET r == restore(kind.value, proj)
                  IN  [from_stack |-> Front(from_stack),
                       to_stack |-> Append(to_stack, Single(r.old_value)),
                       project |-> r.project, out |-> <<>>]

\* move_undo_value, the match on from_stack.pop()
move_match(from_stack, to_stack, proj, vb) ==
    IF from_stack = <<>>
    THEN [from_stack |-> from_stack, to_stack |-> to_stack, project |-> proj,
          out |-> maybe_print(vb, "no value to undo/redo")]
    ELSE LET kind == Last(from_stack)
         IN  IF kind = Group
             THEN group_loop(Front(from_stack), Append(to_stack, Group), proj)
             ELSE LET r == restore(kind.value, proj)
                  IN  [from_stack |-> Front(from_stack),
                       to_stack |-> Append(to_stack, Single(r.old_value)),
                       project |-> r.project, out |-> <<>>]

\* the returned option as it would be if a marker at the top were skipped
RECURSIVE top_value_skipping(_)
top_value_skipping(to_stack) ==
    IF to_stack = <<>>
    THEN None
    ELSE IF Last(to_stack) = Group
         THEN top_value_skipping(Front(to_stack))
         ELSE Some(Last(to_stack).value)

\* move_undo_value, the returned option: whatever is at the top of to_stack
top_value(to_stack) ==
    IF to_stack = <<>>
    THEN None
    ELSE IF Last(to_stack) = Group THEN None ELSE Some(Last(to_stack).value)

\* UndoStack::move_undo_value
move_undo_value(s, proj, is_redo, vb) ==
    LET from_stack == IF is_redo THEN s.future_stack ELSE s.past_stack
        to_stack == IF is_redo THEN s.past_stack ELSE s.future_stack
        m == move_match(from_stack, to_stack, proj, vb)
    IN  [s |-> [s EXCEPT
                  !.past_stack = IF is_redo THEN m.to_stack ELSE m.from_stack,
                  !.future_stack = IF is_redo THEN m.from_stack ELSE m.to_stack],
         project |-> m.project,
         ret |-> top_value(m.to_stack),
         out |-> m.out]

\* UndoStack::undo, UndoStack::redo
undo(s, proj, vb) == move_undo_value(s, proj, FALSE, vb)
redo(s, proj, vb) == move_undo_value(s, proj, TRUE, vb)

\* clear as it would be without open_group = false
clear_keeps_flag(s) ==
    [s EXCEPT !.undo_buffer = None, !.past_stack = <<>>,
              !.future_stack = <<>>]

\* UndoStack::clear
clear(s) ==
    [s EXCEPT !.undo_buffer = None, !.past_stack = <<>>,
              !.future_stack = <<>>, !.open_group = FALSE]

\* UndoStack::is_empty, UndoStack::buffer_is_empty
is_empty(s) == s.past_stack = <<>> /\ s.future_stack = <<>>
buffer_is_empty(s) == ~s.undo_buffer.some

\* start_buffer as it would be if the buffered value were replaced without a push
start_buffer_discards(s, value, vb) ==
    [s |-> [s EXCEPT !.undo_buffer = Some(value)],
     out |-> maybe_print(vb, "initiating undo buffer")]

\* UndoStack::start_buffer
start_buffer(s, value, vb) ==
    LET committed == IF s.undo_buffer.some THEN push(s, s.undo_buffer.value) ELSE s
    IN  [s |-> [committed EXCEPT !.undo_buffer = Some(value)],
         out |-> (IF s.undo_buffer.some
                  THEN maybe_print(vb, "previous undo value was commited automatically")
                  ELSE <<>>)
                 \o maybe_print(vb, "initiating undo buffer")]

\* finish_buffer as it would be if it stored the final value
finish_buffer_final(s, final_value, vb) ==
    IF s.undo_buffer.some
    THEN IF s.undo_buffer.value # final_value
         THEN [s |-> [push(s, final_value) EXCEPT !.undo_buffer = None],
               out |-> <<>>]
         ELSE [s |-> [s EXCEPT !.undo_buffer = None],
               out |-> maybe_print(vb, "skipping commit, values don't differ")]
    ELSE [s |-> s, out |-> maybe_print(vb, "buffer is empty and can't be committed")]

\* finish_buffer as it would be without the comparison with the final value
finish_buffer_always(s, final_value, vb) ==
    IF s.undo_buffer.some
    THEN [s |-> [push(s, s.undo_buffer.value) EXCEPT !.undo_buffer = None],
          out |-> <<>>]
    ELSE [s |-> s, out |-> maybe_print(vb, "buffer is empty and can't be committed")]

\* UndoStack::finish_buffer
finish_buffer(s, final_value, vb) ==
    IF s.undo_buffer.some
    THEN IF s.undo_buffer.value # final_value
         THEN [s |-> [push(s, s.undo_buffer.value) EXCEPT !.undo_buffer = None],
               out |-> <<>>]
         ELSE [s |-> [s EXCEPT !.undo_buffer = None],
               out |-> maybe_print(vb, "skipping commit, values don't differ")]
    ELSE [s |-> s, out |-> maybe_print(vb, "buffer is empty and can't be committed")]

-----------------------------------------------------------------------------
(* The state machine: one action per call of the API, and the caller's     *)
(* own writes to its project.                                              *)

\* The values the callers of the free specification pass to push,
\* start_buffer and finish_buffer: the ValueA variant, which restore maps to
\* itself.  The scripted specifications record all three variants.
Inputs == {e \in UndoValue : e.tag = "ValueA"}

\* the engine and the project as one snapshot
Snapshot ==
    [past_stack |-> past_stack, future_stack |-> future_stack,
     undo_buffer |-> undo_buffer, open_group |-> open_group,
     project |-> project]

\* One call: the engine becomes s, the project proj, the call returned r and
\* printed printed; the call and the state before it are remembered.
Do(o, s, proj, r, printed) ==
    /\ past_stack' = s.past_stack
    /\ future_stack' = s.future_stack
    /\ undo_buffer' = s.undo_buffer
    /\ open_group' = s.open_group
    /\ project' = proj
    /\ ret' = r
    /\ out' = printed
    /\ op' = o
    /\ pre' = Snapshot
    /\ UNCHANGED verbose

\* A call of the free specification: taken when the stacks stay within
\* MaxSlots; no script is followed.
Call(o, s, proj, r, printed) ==
    /\ Len(s.past_stack) + Len(s.future_stack) <= MaxSlots
    /\ Do(o, s, proj, r, printed)
    /\ UNCHANGED sc

\* UndoStack::new(verbose), beside a project of the caller's
Created ==
    /\ past_stack = new.past_stack
    /\ future_stack = new.future_stack
    /\ undo_buffer = new.undo_buffer
    /\ open_group = new.open_group
    /\ verbose \in BOOLEAN
    /\ project \in Project
    /\ ret = None
    /\ out = <<>>
    /\ op = [name |-> "new"]
    /\ pre = Snapshot

Init ==
    /\ Created
    /\ sc = [phase |-> "free"]

Push(e) ==
    Call([name |-> "push", value |-> e], push(self, e), project, None, <<>>)

StartGroup ==
    LET r == start_group(self, verbose)
    IN  Call([name |-> "start_group"], r.s, project, None, r.out)

FinishGroup ==
    LET r == finish_group(self, verbose)
    IN  Call([name |-> "finish_group"], r.s, project, None, r.out)

ReopenGroup ==
    LET r == reopen_group(self, verbose)
    IN  Call([name |-> "reopen_group"], r.s, project, None, r.out)

Undo ==
    LET r == undo(self, project, verbose)
    IN  Call([name |-> "undo"], r.s, r.project, r.ret, r.out)

Redo ==
    LET r == redo(self, project, verbose)
    IN  Call([name |-> "redo"], r.s, r.project, r.ret, r.out)

Clear ==
    Call([name |-> "clear"], clear(self), project, None, <<>>)

StartBuffer(e) ==
    LET r == start_buffer(self, e, verbose)
    IN  Call([name |-> "start_buffer", value |-> e], r.s, project, None, r.out)

FinishBuffer(e) ==
    LET r == finish_buffer(self, e, verbose)
    IN  Call([name |-> "finish_buffer", value |-> e], r.s, project, None, r.out)

\* the caller writes a field of its project (proj.a = ...; proj.b = ...)
SetField(f, v) ==
    /\ project[f] # v
    /\ Call([name |-> "set"], self, [project EXCEPT ![f] = v], None, <<>>)

Next ==
    \/ \E e \in Inputs : Push(e)
    \/ StartGroup
    \/ FinishGroup
    \/ ReopenGroup
    \/ Undo
    \/ Redo
    \/ Clear
    \/ \E e \in Inputs : StartBuffer(e)
    \/ \E e \in Inputs : FinishBuffer(e)
    \/ \E f \in {"a", "b"}, v \in Vals : SetField(f, v)

Spec == Init /\ [][Next]_vars

-----------------------------------------------------------------------------
(* The disciplined caller: every method in any order, but undo, redo and   *)
(* reopen_group only while no group is open.                               *)

DisciplinedUndo == ~open_group /\ Undo

DisciplinedRedo == ~open_group /\ Redo

DisciplinedReopenGroup == ~open_group /\ ReopenGroup

DisciplinedNext ==
    \/ \E e \in Inputs : Push(e)
    \/ StartGroup
    \/ FinishGroup
    \/ DisciplinedReopenGroup
    \/ DisciplinedUndo
    \/ DisciplinedRedo
    \/ Clear
    \/ \E e \in Inputs : StartBuffer(e)
    \/ \E e \in Inputs : FinishBuffer(e)
    \/ \E f \in {"a", "b"}, v \in Vals : SetField(f, v)

SpecDisciplined == Init /\ [][DisciplinedNext]_vars

-----------------------------------------------------------------------------
(* undo and redo step by step: the call pops the top of its source, the    *)
(* loop of the Kind::Group arm runs one iteration per step, and the call    *)
(* returns. Between the calls every other method is called in any order.   *)
(* sc holds the position in the call and the locals of move_undo_value.    *)

\* no call of undo or redo is running
Idle ==
    [pc |-> "idle", is_redo |-> FALSE, from_stack |-> <<>>, to_stack |-> <<>>,
     project |-> [a |-> 0, b |-> 0], out |-> <<>>, iters |-> 0, slots |-> 0]

LoopInit ==
    /\ Created
    /\ sc = Idle

\* the methods other than undo and redo, each in one step
LoopOther ==
    /\ sc.pc = "idle"
    /\ \/ \E e \in Inputs : Push(e)
       \/ StartGroup
       \/ FinishGroup
       \/ ReopenGroup
       \/ Clear
       \/ \E e \in Inputs : StartBuffer(e)
       \/ \E e \in Inputs : FinishBuffer(e)
       \/ \E f \in {"a", "b"}, v \in Vals : SetField(f, v)

\* move_undo_value up to the loop: the stacks are chosen, from_stack.pop()
\* is matched; the None and Single arms go to the return, the Group arm
\* pushes its marker and enters the loop
LoopCall(is_redo) ==
    /\ sc.pc = "idle"
    /\ LET from_stack == IF is_redo THEN future_stack ELSE past_stack
           to_stack == IF is_redo THEN past_stack ELSE future_stack
           called == [Idle EXCEPT !.is_redo = is_redo,
                                  !.slots = Len(from_stack)]
       IN  IF from_stack = <<>>
           THEN sc' = [called EXCEPT
                         !.pc = "return",
                         !.from_stack = from_stack,
                         !.to_stack = to_stack,
                         !.project = project,
                         !.out = maybe_print(verbose, "no value to undo/redo")]
           ELSE LET kind == Last(from_stack)
                IN  IF kind = Group
                    THEN sc' = [called EXCEPT
                                  !.pc = "loop",
                                  !.from_stack = Front(from_stack),
                                  !.to_stack = Append(to_stack, Group),
                                  !.project = project]
                    ELSE LET r == restore(kind.value, project)
                         IN  sc' = [called EXCEPT
                                      !.pc = "return",
                                      !.from_stack = Front(from_stack),
                                      !.to_stack =
                                          Append(to_stack, Single(r.old_value)),
                                      !.project = r.project]
    /\ UNCHANGED <<past_stack, future_stack, undo_buffer, open_group, verbose,
                   project, ret, out, op, pre>>

\* one iteration of the loop
LoopStep ==
    /\ sc.pc = "loop"
    /\ sc.iters < MaxIters
    /\ LET r == loop_iteration(sc.from_stack, sc.to_stack, sc.project)
       IN  sc' = [sc EXCEPT !.pc = IF r.done THEN "return" ELSE "loop",
                            !.from_stack = r.from_stack,
                            !.to_stack = r.to_stack,
                            !.project = r.project,
                            !.out = r.out,
                            !.iters = sc.iters + 1]
    /\ UNCHANGED <<past_stack, future_stack, undo_buffer, open_group, verbose,
                   project, ret, out, op, pre>>

\* the call returns the top of to_stack; the stacks and the project are as
\* the arms left them
LoopReturn ==
    /\ sc.pc = "return"
    /\ Do([name |-> IF sc.is_redo THEN "redo" ELSE "undo"],
          [self EXCEPT
             !.past_stack = IF sc.is_redo THEN sc.to_stack ELSE sc.from_stack,
             !.future_stack = IF sc.is_redo THEN sc.from_stack ELSE sc.to_stack],
          sc.project, top_value(sc.to_stack), sc.out)
    /\ sc' = Idle

LoopNext ==
    \/ LoopOther
    \/ \E is_redo \in BOOLEAN : LoopCall(is_redo)
    \/ LoopStep
    \/ LoopReturn

\* a call that has started is run to its end: nothing else runs meanwhile
SpecLoop ==
    LoopInit /\ [][LoopNext]_vars /\ WF_vars(LoopStep) /\ WF_vars(LoopReturn)

-----------------------------------------------------------------------------
(* The callers of the examples: a change of the project is recorded by     *)
(* pushing the current value of the fields it is about to write.           *)

Tags == {"ValueA", "ValueB", "AllValues"}

\* UndoValue::ValueA(proj.a), ValueB(proj.b), AllValues { a: proj.a, b: proj.b }
capture(tag, proj) ==
    CASE tag = "ValueA" -> ValueA(proj.a)
      [] tag = "ValueB" -> ValueB(proj.b)
      [] tag = "AllValues" -> AllValues(proj.a, proj.b)

\* proj.a = x; proj.b = y: the fields the variant covers are written
write(tag, proj, x, y) ==
    CASE tag = "ValueA" -> [proj EXCEPT !.a = x]
      [] tag = "ValueB" -> [proj EXCEPT !.b = y]
      [] tag = "AllValues" -> [a |-> x, b |-> y]

\* undo_stack.push(<the current value>); <the fields are written>
Edit(tag, x, y) ==
    Do([name |-> "edit", value |-> capture(tag, project)],
       push(self, capture(tag, project)), write(tag, project, x, y), None, <<>>)

\* undo_stack.undo(&mut proj), undo_stack.redo(&mut proj)
DoUndo ==
    LET r == undo(self, project, verbose)
    IN  Do([name |-> "undo"], r.s, r.project, r.ret, r.out)

DoRedo ==
    LET r == redo(self, project, verbose)
    IN  Do([name |-> "redo"], r.s, r.project, r.ret, r.out)

-----------------------------------------------------------------------------
(* The undo/redo script (example_single_values): n recorded changes, then  *)
(* n calls of undo, then n calls of redo.  sc.n counts the changes, sc.k   *)
(* the undos not yet redone, sc.s0 is the project at the start and sc.sn   *)
(* the project right before the first undo.                                *)

LawInit ==
    /\ Created
    /\ sc = [phase |-> "push", n |-> 0, k |-> 0, s0 |-> project, sn |-> project]

LawEdit(tag, x, y) ==
    /\ sc.phase = "push"
    /\ sc.n < MaxEdits
    /\ Edit(tag, x, y)
    /\ sc' = [sc EXCEPT !.n = sc.n + 1, !.sn = write(tag, project, x, y)]

LawUndo ==
    /\ sc.phase \in {"push", "undo"}
    /\ sc.k < sc.n
    /\ DoUndo
    /\ sc' = [sc EXCEPT !.phase = "undo", !.k = sc.k + 1]

LawRedo ==
    /\ \/ sc.phase = "undo" /\ sc.k = sc.n
       \/ sc.phase = "redo" /\ sc.k > 0
    /\ DoRedo
    /\ sc' = [sc EXCEPT !.phase = "redo", !.k = sc.k - 1]

LawNext ==
    \/ \E tag \in Tags, x \in Vals, y \in Vals : LawEdit(tag, x, y)
    \/ LawUndo
    \/ LawRedo

SpecLaw == LawInit /\ [][LawNext]_vars

-----------------------------------------------------------------------------
(* The group script (example_group): some recorded changes and undos, then *)
(* start_group, recorded changes, finish_group, one undo, one redo.        *)
(* sc.n counts the changes of the phase, sc.s0 is the project at           *)
(* start_group and sc.sn the project right before the undo.                *)

GroupInit ==
    /\ Created
    /\ sc = [phase |-> "prefix", n |-> 0, s0 |-> project, sn |-> project]

GroupPrefixEdit(tag, x, y) ==
    /\ sc.phase = "prefix"
    /\ sc.n < MaxPrefix
    /\ Edit(tag, x, y)
    /\ sc' = [sc EXCEPT !.n = sc.n + 1]

GroupPrefixUndo ==
    /\ sc.phase = "prefix"
    /\ past_stack # <<>>
    /\ DoUndo
    /\ UNCHANGED sc

GroupStart ==
    /\ sc.phase = "prefix"
    /\ LET r == start_group(self, verbose)
       IN  Do([name |-> "start_group"], r.s, project, None, r.out)
    /\ sc' = [sc EXCEPT !.phase = "group", !.n = 0, !.s0 = project]

GroupEdit(tag, x, y) ==
    /\ sc.phase = "group"
    /\ sc.n < MaxGroupEdits
    /\ Edit(tag, x, y)
    /\ sc' = [sc EXCEPT !.n = sc.n + 1]

GroupFinish ==
    /\ sc.phase = "group"
    /\ LET r == finish_group(self, verbose)
       IN  Do([name |-> "finish_group"], r.s, project, None, r.out)
    /\ sc' = [sc EXCEPT !.phase = "closed"]

GroupUndo ==
    /\ sc.phase = "closed"
    /\ DoUndo
    /\ sc' = [sc EXCEPT !.phase = "undone", !.sn = project]

GroupRedo ==
    /\ sc.phase = "undone"
    /\ DoRedo
    /\ sc' = [sc EXCEPT !.phase = "redone"]

GroupNext ==
    \/ \E tag \in Tags, x \in Vals, y \in Vals : GroupPrefixEdit(tag, x, y)
    \/ GroupPrefixUndo
    \/ GroupStart
    \/ \E tag \in Tags, x \in Vals, y \in Vals : GroupEdit(tag, x, y)
    \/ GroupFinish
    \/ GroupUndo
    \/ GroupRedo

SpecGroup == GroupInit /\ [][GroupNext]_vars

-----------------------------------------------------------------------------
(* Vocabulary of the properties.                                           *)

\* the engine before the last call
PreSelf ==
    [past_stack |-> pre.past_stack, future_stack |-> pre.future_stack,
     undo_buffer |-> pre.undo_buffer, open_group |-> pre.open_group]

\* the stack is not empty and kind is at its top
TopIs(stack, kind) == Len(stack) > 0 /\ Last(stack) = kind

\* the project holds what value records, in the fields value covers
Holds(value, proj) ==
    CASE value.tag = "ValueA" -> proj.a = value.a
      [] value.tag = "ValueB" -> proj.b = value.b
      [] value.tag = "AllValues" -> proj.a = value.a /\ proj.b = value.b

\* the last call was undo (redo): the stack it took from and the one it added to
Moved == op.name \in {"undo", "redo"}
PreSource == IF op.name = "redo" THEN pre.future_stack ELSE pre.past_stack
PreDest == IF op.name = "redo" THEN pre.past_stack ELSE pre.future_stack
Source == IF op.name = "redo" THEN future_stack ELSE past_stack
Dest == IF op.name = "redo" THEN past_stack ELSE future_stack

\* a redo called now would move nothing
RedoIsNoOp ==
    LET r == redo(self, project, verbose)
    IN  r.s = self /\ r.project = project

-----------------------------------------------------------------------------
(* C1: the undo/redo inverse law.                                          *)

\* C1: from an empty engine and a project in state s0, after n recorded
\* changes (no group, no buffer), n calls of undo leave the project exactly
\* s0, and n calls of redo after them leave it exactly as it was right
\* before the first undo.
C1_InverseLaw ==
    /\ (sc.phase = "undo" /\ sc.k = sc.n) => project = sc.s0
    /\ (sc.phase = "redo" /\ sc.k = 0) => project = sc.sn

\* three changes undone and redone, one of them not stored by push (its value
\* was at the top already), and the project not where it started
C1_Witness ==
    /\ sc.phase = "redo"
    /\ sc.k = 0
    /\ sc.n = 3
    /\ Len(past_stack) = 2
    /\ sc.sn # sc.s0
    /\ project = sc.sn

-----------------------------------------------------------------------------
(* C2: group atomicity.                                                    *)

\* C2: after start_group, any number of recorded changes and finish_group,
\* one call of undo leaves the project as it was at start_group, and one
\* call of redo after it leaves the project as it was before that undo.
C2_GroupAtomicity ==
    /\ sc.phase = "undone" => project = sc.s0
    /\ sc.phase = "redone" => project = sc.sn

\* a group of two changes, after history of its own, undone and redone
C2_Witness ==
    /\ sc.phase = "redone"
    /\ sc.n = 2
    /\ Len(past_stack) = 5
    /\ sc.sn # sc.s0
    /\ project = sc.sn

-----------------------------------------------------------------------------
(* C3: push clears redo.                                                   *)

\* C3 as stated: after a successful undo (future_stack is not empty), push(e)
\* for any entry e leaves future_stack empty, and a redo then moves nothing.
C3_PushAlwaysClearsFuture ==
    (op.name = "push" /\ pre.future_stack # <<>>)
        => (future_stack = <<>> /\ RedoIsNoOp)

\* C3 as amended: after a successful undo, push(e) for an entry e that is not
\* the Single at the top of past_stack leaves future_stack empty, and a redo
\* then moves nothing and leaves the project and past_stack as they are;
\* push(e) for the entry at the top of past_stack changes nothing, and
\* future_stack stays as the undo left it.
C3_PushClearsFuture ==
    (op.name = "push" /\ pre.future_stack # <<>>)
        => IF TopIs(pre.past_stack, Single(op.value))
           THEN self = PreSelf
           ELSE future_stack = <<>> /\ RedoIsNoOp

C3_Witness ==
    /\ op.name = "push"
    /\ pre.future_stack # <<>>
    /\ ~TopIs(pre.past_stack, Single(op.value))
    /\ future_stack = <<>>

-----------------------------------------------------------------------------
(* C4: push de-duplication.                                                *)

\* what push(e) does to the stacks: nothing exactly when Single(e) is at the
\* top of past_stack, and else one slot Single(e) more and future_stack empty
PushDedup ==
    IF TopIs(pre.past_stack, Single(op.value))
    THEN past_stack = pre.past_stack
    ELSE /\ past_stack = Append(pre.past_stack, Single(op.value))
         /\ future_stack = <<>>

\* C4 as stated: push(e) leaves past_stack alone exactly when its top is
\* Single(e) and else appends Single(e) and empties future_stack; and pushing
\* the same value twice in a row makes past_stack exactly one slot longer.
C4_TwicePushGrowsByOne ==
    op.name = "push"
        => /\ PushDedup
           /\ Len(push(self, op.value).past_stack) = Len(pre.past_stack) + 1

\* C4 as amended: the same, and pushing the same value twice in a row makes
\* past_stack one slot longer when its top was not already Single(e), and
\* leaves it as it was when it was.
C4_PushDedup ==
    op.name = "push"
        => /\ PushDedup
           /\ push(self, op.value).past_stack = past_stack
           /\ Len(push(self, op.value).past_stack) =
                  Len(pre.past_stack)
                      + (IF TopIs(pre.past_stack, Single(op.value)) THEN 0 ELSE 1)

\* a push of e onto a marker that lies on Single(e)
C4_Witness ==
    /\ op.name = "push"
    /\ Len(pre.past_stack) >= 2
    /\ Last(pre.past_stack) = Group
    /\ pre.past_stack[Len(pre.past_stack) - 1] = Single(op.value)
    /\ past_stack = Append(pre.past_stack, Single(op.value))

-----------------------------------------------------------------------------
(* C5: buffer commit.                                                      *)

\* finish_buffer(v1) was called on a buffer holding another value
Committed ==
    /\ op.name = "finish_buffer"
    /\ pre.undo_buffer.some
    /\ pre.undo_buffer.value # op.value

\* C5 as stated: start_buffer(v0) leaves the buffer holding v0, and
\* finish_buffer(v1) with v1 # v0 then appends exactly one slot, Single(v0),
\* to past_stack, clears the buffer, and one undo after it restores what v0
\* recorded.
C5_CommitAlwaysAppends ==
    /\ op.name = "start_buffer" => undo_buffer = Some(op.value)
    /\ Committed
         => /\ past_stack = Append(pre.past_stack, Single(pre.undo_buffer.value))
            /\ undo_buffer = None
            /\ Holds(pre.undo_buffer.value, undo(self, project, verbose).project)

\* C5 as amended: start_buffer(v0) leaves the buffer holding v0, and
\* finish_buffer(v1) with v1 # v0 then goes through push(v0): it appends
\* exactly one slot, Single(v0), to past_stack unless Single(v0) is at its top
\* already, and then appends nothing; either way Single(v0) (never v1) is at
\* the top of past_stack, the buffer is cleared, and one undo after it
\* restores what v0 recorded.
C5_BufferCommit ==
    /\ op.name = "start_buffer" => undo_buffer = Some(op.value)
    /\ Committed
         => /\ past_stack =
                  IF TopIs(pre.past_stack, Single(pre.undo_buffer.value))
                  THEN pre.past_stack
                  ELSE Append(pre.past_stack, Single(pre.undo_buffer.value))
            /\ TopIs(past_stack, Single(pre.undo_buffer.value))
            /\ undo_buffer = None
            /\ Holds(pre.undo_buffer.value, undo(self, project, verbose).project)

C5_Witness ==
    /\ Committed
    /\ past_stack = Append(pre.past_stack, Single(pre.undo_buffer.value))
    /\ ~Holds(pre.undo_buffer.value, project)

-----------------------------------------------------------------------------
(* C6: buffer discard.                                                     *)

\* C6: finish_buffer(v0) on a buffer holding v0 leaves past_stack,
\* future_stack and open_group as they were; after finish_buffer on an active
\* buffer, committed or discarded, buffer_is_empty is true.
C6_BufferDiscard ==
    /\ (op.name = "finish_buffer" /\ pre.undo_buffer = Some(op.value))
         => /\ past_stack = pre.past_stack
            /\ future_stack = pre.future_stack
            /\ open_group = pre.open_group
    /\ (op.name = "finish_buffer" /\ pre.undo_buffer.some)
         => buffer_is_empty(self)

\* a discard that a commit would have shown: Single(v0) is not at the top of
\* past_stack and future_stack is not empty
C6_Witness ==
    /\ op.name = "finish_buffer"
    /\ pre.undo_buffer = Some(op.value)
    /\ ~TopIs(pre.past_stack, Single(op.value))
    /\ pre.future_stack # <<>>
    /\ buffer_is_empty(self)

-----------------------------------------------------------------------------
(* C7: undo on an empty past_stack, redo on an empty future_stack.         *)

\* C7: undo called with past_stack empty (redo with future_stack empty)
\* leaves the project, both stacks, the buffer and open_group as they were,
\* and so does the same call made once more.
C7_EmptyTraversal ==
    (Moved /\ PreSource = <<>>)
        => /\ self = PreSelf
           /\ project = pre.project
           /\ LET again == move_undo_value(self, project, op.name = "redo", verbose)
              IN  again.s = self /\ again.project = project

\* an undo with nothing to undo while there is something to redo
C7_Witness ==
    /\ op.name = "undo"
    /\ pre.past_stack = <<>>
    /\ pre.future_stack # <<>>
    /\ pre.undo_buffer.some

-----------------------------------------------------------------------------
(* C8: what undo and redo return when nothing moved.                       *)

\* C8: undo called with past_stack empty, and redo called with future_stack
\* empty, return None, whatever the other stack holds.
C8_NoMoveReturnsNone ==
    (Moved /\ PreSource = <<>>) => ret = None

-----------------------------------------------------------------------------
(* C9: what undo and redo return after a move.                             *)

\* the stack holds a marker beneath its top
MarkerBeneathTop(stack) ==
    \E i \in 1..(Len(stack) - 1) : stack[i] = Group

\* C9: when undo/redo pops a Single, exactly one slot crosses, the inverse
\* that restore produced, and the call returns it; when undo/redo moves a
\* complete group, a marker is at the top of the destination and the call
\* returns None.
C9_ReturnAfterMove ==
    /\ (Moved /\ Len(PreSource) > 0 /\ IsSingle(Last(PreSource)))
         => LET inverse == restore(Last(PreSource).value, pre.project).old_value
            IN  /\ Source = Front(PreSource)
                /\ Dest = Append(PreDest, Single(inverse))
                /\ ret = Some(inverse)
    /\ (Moved /\ TopIs(PreSource, Group) /\ MarkerBeneathTop(PreSource))
         => /\ Last(Dest) = Group
            /\ ret = None

\* a group with an entry in it was moved in one call
C9_Witness ==
    /\ Moved
    /\ TopIs(PreSource, Group)
    /\ MarkerBeneathTop(PreSource)
    /\ Len(Dest) = Len(PreDest) + 3
    /\ ret = None

-----------------------------------------------------------------------------
(* C10: rejected calls.                                                    *)

\* the last call was one the engine rejects
Rejected ==
    \/ op.name = "start_group" /\ pre.open_group
    \/ op.name = "finish_group" /\ ~pre.open_group
    \/ op.name = "finish_buffer" /\ ~pre.undo_buffer.some

\* C10: start_group while a group is open, finish_group while none is, and
\* finish_buffer while no buffer is active leave both stacks, the buffer and
\* open_group as they were; a start_group that pushes its marker found no
\* group open and a finish_group that pushes its marker found one.
C10_RejectedCalls ==
    /\ Rejected => self = PreSelf
    /\ (op.name = "start_group" /\ self # PreSelf)
         => ~pre.open_group /\ open_group
    /\ (op.name = "finish_group" /\ self # PreSelf)
         => pre.open_group /\ ~open_group

\* a start_group rejected while a group is open
C10_Witness ==
    /\ op.name = "start_group"
    /\ pre.open_group
    /\ pre.past_stack # <<>>
    /\ self = PreSelf

-----------------------------------------------------------------------------
(* C11: reopen_group while a group is open.                                *)

\* C11: reopen_group called while a group is open is rejected and leaves
\* past_stack (its top marker too), future_stack, the buffer and open_group
\* as they were.
C11_ReopenWhileOpenRejected ==
    (op.name = "reopen_group" /\ pre.open_group) => self = PreSelf

-----------------------------------------------------------------------------
(* C12: reopen_group and the Single entries.                               *)

\* the Single slots of a stack, in their order
Singles(stack) == SelectSeq(stack, IsSingle)

\* C12: reopen_group on an empty past_stack or on one with a Single at its
\* top leaves both stacks, the buffer and open_group as they were; with a
\* marker at the top and no group open it removes exactly that marker, sets
\* open_group and leaves the slots beneath, future_stack and the buffer as
\* they were; in no case does the call lose or reorder a Single.
C12_ReopenKeepsSingles ==
    op.name = "reopen_group"
        => /\ (pre.past_stack = <<>> \/ IsSingle(Last(pre.past_stack)))
                => self = PreSelf
           /\ (TopIs(pre.past_stack, Group) /\ ~pre.open_group)
                => /\ past_stack = Front(pre.past_stack)
                   /\ open_group
                   /\ future_stack = pre.future_stack
                   /\ undo_buffer = pre.undo_buffer
           /\ Singles(past_stack) = Singles(pre.past_stack)
           /\ future_stack = pre.future_stack

\* reopen_group on a Single that lies on a closed group
C12_Witness ==
    /\ op.name = "reopen_group"
    /\ Len(pre.past_stack) = 3
    /\ IsSingle(Last(pre.past_stack))
    /\ pre.past_stack[1] = Group
    /\ self = PreSelf

-----------------------------------------------------------------------------
(* C13: start_buffer commits the value it replaces.                        *)

\* C13: start_buffer(v) on a buffer holding u does to past_stack and
\* future_stack exactly what push(u) does (nothing when Single(u) is at the
\* top of past_stack, else one slot Single(u) more and future_stack empty)
\* and leaves the buffer holding v; start_buffer(v) on an empty buffer leaves
\* both stacks as they were and the buffer holding v.
C13_StartBufferCommits ==
    op.name = "start_buffer"
        => /\ undo_buffer = Some(op.value)
           /\ open_group = pre.open_group
           /\ IF pre.undo_buffer.some
              THEN LET u == pre.undo_buffer.value
                   IN  /\ IF TopIs(pre.past_stack, Single(u))
                          THEN /\ past_stack = pre.past_stack
                               /\ future_stack = pre.future_stack
                          ELSE /\ past_stack = Append(pre.past_stack, Single(u))
                               /\ future_stack = <<>>
                       /\ past_stack = push(PreSelf, u).past_stack
                       /\ future_stack = push(PreSelf, u).future_stack
              ELSE /\ past_stack = pre.past_stack
                   /\ future_stack = pre.future_stack

\* a buffer replaced by another value while there was something to redo
C13_Witness ==
    /\ op.name = "start_buffer"
    /\ pre.undo_buffer.some
    /\ pre.undo_buffer.value # op.value
    /\ pre.future_stack # <<>>
    /\ past_stack = Append(pre.past_stack, Single(pre.undo_buffer.value))
    /\ future_stack = <<>>

-----------------------------------------------------------------------------
(* C14: clear.                                                             *)

\* C14: clear, in any state, leaves past_stack and future_stack empty, the
\* buffer None and open_group false: is_empty and buffer_is_empty are true
\* and the next start_group pushes its marker.
C14_ClearResets ==
    op.name = "clear"
        => /\ past_stack = <<>>
           /\ future_stack = <<>>
           /\ undo_buffer = None
           /\ ~open_group
           /\ is_empty(self)
           /\ buffer_is_empty(self)
           /\ start_group(self, verbose).s =
                  [self EXCEPT !.past_stack = <<Group>>, !.open_group = TRUE]

\* clear in the middle of a group, with a buffer and something to redo
C14_Witness ==
    /\ op.name = "clear"
    /\ pre.open_group
    /\ pre.undo_buffer.some
    /\ pre.past_stack # <<>>
    /\ pre.future_stack # <<>>
    /\ is_empty(self)

-----------------------------------------------------------------------------
(* C15: verbose = false.                                                   *)

\* C15: with verbose false no call prints anything, whatever the call and
\* whatever the state it is made in.
C15_SilentWhenQuiet ==
    ~verbose => out = <<>>

-----------------------------------------------------------------------------
(* C16: undo then redo.                                                    *)

\* one undo and then one redo, called now, give back the engine and the project
RoundTrip ==
    LET u == undo(self, project, verbose)
        r == redo(u.s, u.project, verbose)
    IN  /\ r.s.past_stack = past_stack
        /\ r.s.future_stack = future_stack
        /\ r.project = project

-----------------------------------------------------------------------------
(* C17: what open_group stands for.                                        *)

\* the number of markers in a stack
IsMarker(kind) == kind = Group
Markers(stack) == Len(SelectSeq(stack, IsMarker))

\* C17: in every reachable state open_group is true exactly when past_stack
\* holds an odd number of markers, that is a start marker without its end.
C17_FlagMeansOpenMarker ==
    open_group <=> (Markers(past_stack) % 2 = 1)

-----------------------------------------------------------------------------
(* C18: the traversal of a complete group.                                 *)

\* where the nearest marker beneath the top of stack is
GroupStartIndex(stack) ==
    CHOOSE i \in 1..(Len(stack) - 1) :
        /\ stack[i] = Group
        /\ \A j \in (i + 1)..(Len(stack) - 1) : stack[j] # Group

\* e1, ..., ek restored from ek down to e1 on a project: the inverses in the
\* order they are produced, and the project after the last of them
RECURSIVE Inverses(_, _)
Inverses(es, proj) ==
    IF es = <<>>
    THEN [slots |-> <<>>, project |-> proj]
    ELSE LET r == restore(Last(es).value, proj)
             rest == Inverses(Front(es), r.project)
         IN  [slots |-> <<Single(r.old_value)>> \o rest.slots,
              project |-> rest.project]

\* C18: when the source of an undo (redo) ends with marker, e1, ..., ek,
\* marker, the call takes exactly these k + 2 slots from the source, restores
\* ek first and e1 last, and adds marker, inv(ek), ..., inv(e1), marker to the
\* destination; the source below the group and the destination as it was are
\* not touched.
C18_GroupTraversal ==
    (Moved /\ TopIs(PreSource, Group) /\ MarkerBeneathTop(PreSource))
        => LET g == GroupStartIndex(PreSource)
               es == SubSeq(PreSource, g + 1, Len(PreSource) - 1)
               inv == Inverses(es, pre.project)
           IN  /\ Source = SubSeq(PreSource, 1, g - 1)
               /\ Len(Source) = Len(PreSource) - (Len(es) + 2)
               /\ Dest = PreDest \o <<Group>> \o inv.slots \o <<Group>>
               /\ project = inv.project

\* the undo of a group of two values above one earlier value: four slots
\* cross, the earlier value stays
C18_Witness ==
    /\ op.name = "undo"
    /\ Len(pre.past_stack) = 5
    /\ IsSingle(pre.past_stack[1])
    /\ pre.past_stack[2] = Group
    /\ IsSingle(pre.past_stack[3]) /\ IsSingle(pre.past_stack[4])
    /\ pre.past_stack[5] = Group
    /\ past_stack = <<pre.past_stack[1]>>
    /\ Len(future_stack) = Len(pre.future_stack) + 4
    /\ project # pre.project

-----------------------------------------------------------------------------
(* C19: the traversal of a group without its second marker.                *)

\* C19: when undo (redo) pops a marker and the source holds no other marker,
\* the call empties the source: every Single beneath the marker is restored,
\* top first, and its inverse follows the one marker on the destination;
\* nothing is put back. In every undo and redo the two stacks together hold
\* as many slots after the call as before it.
C19_UnterminatedGroup ==
    /\ (Moved /\ TopIs(PreSource, Group) /\ ~MarkerBeneathTop(PreSource))
         => LET inv == Inverses(Front(PreSource), pre.project)
            IN  /\ Source = <<>>
                /\ Dest = PreDest \o <<Group>> \o inv.slots
                /\ project = inv.project
    /\ Moved
         => Len(past_stack) + Len(future_stack)
                = Len(pre.past_stack) + Len(pre.future_stack)

\* the undo of an open group above two earlier values: all three slots cross
\* and the project changes
C19_Witness ==
    /\ op.name = "undo"
    /\ Len(pre.past_stack) = 3
    /\ IsSingle(pre.past_stack[1]) /\ IsSingle(pre.past_stack[2])
    /\ pre.past_stack[3] = Group
    /\ past_stack = <<>>
    /\ Len(future_stack) = 3
    /\ future_stack[1] = Group
    /\ project # pre.project

-----------------------------------------------------------------------------
(* C20: groups under the disciplined caller.                               *)

\* C20: when undo, redo and reopen_group are only called while no group is
\* open, future_stack always holds an even number of markers, past_stack
\* holds an odd number of markers exactly when open_group is true, and every
\* undo and redo that moves something moves one Single or one group from
\* its end marker down to its start marker, never running out of source.
C20_WellFormedGroups ==
    /\ Markers(future_stack) % 2 = 0
    /\ open_group <=> (Markers(past_stack) % 2 = 1)
    /\ (Moved /\ PreSource # <<>>)
         => /\ IsSingle(Last(PreSource)) \/ MarkerBeneathTop(PreSource)
            /\ out = <<>>
            /\ IsSingle(Last(PreSource))
                 => Len(Source) = Len(PreSource) - 1
            /\ TopIs(PreSource, Group)
                 => Len(Source) = GroupStartIndex(PreSource) - 1

\* a complete group has just been undone: both of its markers are in
\* future_stack
C20_Witness ==
    /\ op.name = "undo"
    /\ ~open_group
    /\ Len(pre.past_stack) = 3
    /\ pre.past_stack[1] = Group /\ pre.past_stack[3] = Group
    /\ past_stack = <<>>
    /\ Markers(future_stack) = 2

-----------------------------------------------------------------------------
(* C21: undo and redo terminate.                                           *)

\* C21: a call of undo or redo, made in any reachable state, returns, and
\* its loop runs at most as many iterations as the source held slots when
\* the call was made, complete group or not.
C21_Terminates ==
    /\ [](sc.iters <= sc.slots)
    /\ (sc.pc # "idle") ~> (sc.pc = "idle")

\* the loop has just run out of source on a group without a second marker,
\* above two Singles: three slots at the call, three iterations
C21_Witness ==
    /\ sc.pc = "return"
    /\ sc.slots = 3
    /\ sc.iters = 3
    /\ sc.from_stack = <<>>
    /\ sc.out = <<"incomplete undo group">>

====
